---- MODULE Spec2Model ----
(***************************************************************************)
(* Theme resolution of the portfolio site: the ThemeProvider component     *)
(* (components/providers/ThemeProvider.tsx).  The provider keeps the       *)
(* user's preference (theme), the rendered theme (resolvedTheme), the      *)
(* class list of the document root, the value persisted in localStorage    *)
(* and the listener it registers on the prefers-color-scheme media query.  *)
(*                                                                         *)
(* React runs the two effects of the provider as callbacks of their own:   *)
(* both run once after the first render (Initialize), and the listener     *)
(* effect runs again after a render in which `theme` differs from the      *)
(* value it last ran with (SystemChangeEffect).  A state hook is modelled  *)
(* by the value of its latest update.                                      *)
(***************************************************************************)
EXTENDS Naturals, Sequences, FiniteSets

VARIABLES
    phase,          \* "uninit": rendered, effects not yet run; "active"; "crashed"; "ended"
    defaultTheme,   \* prop defaultTheme of the mounted provider
    theme,          \* useState theme
    resolvedTheme,  \* useState resolvedTheme
    classList,      \* classes of document.documentElement
    storage,        \* localStorage[storageKey], NULL when absent
    os,             \* colour scheme the operating system reports
    readOk,         \* localStorage.getItem returns (does not throw)
    writeOk,        \* localStorage.setItem returns (does not throw)
    mmOk,           \* window.matchMedia returns a MediaQueryList (does not throw)
    hasModern,      \* the MediaQueryList has addEventListener
    hasLegacy,      \* the MediaQueryList has addListener
    listeners,      \* handlers of this provider attached to the media query, per API
    cleanup,        \* what the cleanup returned by the last listener effect removes
    effTheme,       \* value of `theme` the listener effect last ran with
    log,            \* console.warn messages of the latest step
    lastOp,         \* the latest step and its argument
    rt,             \* progress of a setTheme / session end / initialize round trip
    osAtInit,       \* colour scheme the OS reported when the session was initialized
    lastSet,        \* argument of the latest setTheme of the session, and whether it
                    \* was called before ("pre") or after ("post") the mount effects
    lastSaved,      \* argument of the latest setTheme whose storage write succeeded
    consumed,       \* what useTheme gave the consumer rendered in the latest step
    clicks          \* what the latest consecutive clicks on one toggle started from

vars == <<phase, defaultTheme, theme, resolvedTheme, classList, storage, os,
          readOk, writeOk, mmOk, hasModern, hasLegacy, listeners, cleanup,
          effTheme, log, lastOp, rt, osAtInit, lastSet, lastSaved, consumed,
          clicks>>

env == <<readOk, writeOk, mmOk, hasModern, hasLegacy>>

----------------------------------------------------------------------------
(* Values *)

Preferences == {"light", "dark", "system"}
Resolved == {"light", "dark"}
NULL == "<null>"
\* what may sit under the storage key: nothing, an empty string, foreign
\* data, or one of the three preferences
StorageValues == {NULL, "", "Dark"} \cup Preferences
FontClass == "font-inter"
DefaultThemeProp == "system"

WarnSystem == "System theme detection failed, falling back to light theme:"
WarnRead == "Failed to read theme from localStorage:"
WarnSave == "Failed to save theme to localStorage:"

NoArg == "-"
Op(o, a) == [op |-> o, arg |-> a]
NoRoundTrip == <<"none", NoArg>>
NoSet == <<NoArg, "none">>
UNDEFINED == [theme |-> "<undefined>", resolvedTheme |-> "<undefined>", setTheme |-> "<undefined>"]
NoRead == [thrown |-> FALSE, error |-> "", value |-> UNDEFINED]
ErrOutsideProvider == "useTheme must be used within a ThemeProvider"
\* the steps that are a call of setTheme
SetterOps == {"setTheme", "toggle", "icon"}

----------------------------------------------------------------------------
(* The provider's helpers.  Each returns the value and the warnings logged. *)

\* getSystemTheme that never consults the media query
getSystemTheme_alwaysLight ==
    [val |-> "light", warn |-> IF mmOk THEN <<>> ELSE <<WarnSystem>>]

getSystemTheme ==
    IF mmOk
    THEN [val |-> IF os = "dark" THEN "dark" ELSE "light", warn |-> <<>>]
    ELSE [val |-> "light", warn |-> <<WarnSystem>>]

\* getStoredTheme without the membership test on the stored string
getStoredTheme_unvalidated(raw) ==
    IF ~readOk
    THEN [val |-> NULL, warn |-> <<WarnRead>>]
    ELSE IF raw # NULL /\ raw # ""
         THEN [val |-> raw, warn |-> <<>>]
         ELSE [val |-> NULL, warn |-> <<>>]

\* getStoredTheme whose catch block logs nothing
getStoredTheme_silent(raw) ==
    IF ~readOk
    THEN [val |-> NULL, warn |-> <<>>]
    ELSE IF raw # NULL /\ raw # "" /\ raw \in {"light", "dark", "system"}
         THEN [val |-> raw, warn |-> <<>>]
         ELSE [val |-> NULL, warn |-> <<>>]

\* getStoredTheme that never finds a preference
getStoredTheme_absent(raw) ==
    [val |-> NULL, warn |-> IF readOk THEN <<>> ELSE <<WarnRead>>]

getStoredTheme(raw) ==
    IF ~readOk
    THEN [val |-> NULL, warn |-> <<WarnRead>>]
    ELSE IF raw # NULL /\ raw # "" /\ raw \in {"light", "dark", "system"}
         THEN [val |-> raw, warn |-> <<>>]
         ELSE [val |-> NULL, warn |-> <<>>]

\* saveTheme that never reaches the storage key
saveTheme_dropped(newTheme) ==
    [val |-> storage, warn |-> IF writeOk THEN <<>> ELSE <<WarnSave>>]

\* saveTheme that reports a failed write twice
saveTheme_warnsTwice(newTheme) ==
    IF writeOk
    THEN [val |-> newTheme, warn |-> <<>>]
    ELSE [val |-> storage, warn |-> <<WarnSave, WarnSave>>]

\* saveTheme that keeps a preference that is already stored
saveTheme_firstWriteWins(newTheme) ==
    IF writeOk
    THEN [val |-> IF storage \in Preferences THEN storage ELSE newTheme, warn |-> <<>>]
    ELSE [val |-> storage, warn |-> <<WarnSave>>]

saveTheme(newTheme) ==
    IF writeOk
    THEN [val |-> newTheme, warn |-> <<>>]
    ELSE [val |-> storage, warn |-> <<WarnSave>>]

\* resolveTheme that asks the operating system whatever the preference is
resolveTheme_alwaysSystem(currentTheme) ==
    getSystemTheme

\* resolveTheme that keeps the scheme resolved earlier instead of asking
\* the operating system again
resolveTheme_keepsResolved(currentTheme) ==
    IF currentTheme = "system"
    THEN [val |-> resolvedTheme, warn |-> <<>>]
    ELSE [val |-> currentTheme, warn |-> <<>>]

resolveTheme(currentTheme) ==
    IF currentTheme = "system"
    THEN getSystemTheme
    ELSE [val |-> currentTheme, warn |-> <<>>]

\* applyTheme that adds the new class without removing the old one
applyTheme_noRemove(classes, newResolvedTheme) ==
    classes \cup {newResolvedTheme}

applyTheme(classes, newResolvedTheme) ==
    (classes \ {"light", "dark"}) \cup {newResolvedTheme}

\* getStoredTheme() || 'system'
storedThemeOrSystem(raw) ==
    IF getStoredTheme(raw).val # NULL THEN getStoredTheme(raw).val ELSE "system"

\* getStoredTheme() || defaultTheme
storedThemeOrDefault(raw) ==
    IF getStoredTheme(raw).val # NULL THEN getStoredTheme(raw).val ELSE defaultTheme

\* the listener effect whose legacy branch returns no cleanup
subscribe_legacyNoCleanup(t) ==
    IF t # "system" THEN [thrown |-> FALSE, api |-> "none", cleanup |-> "none"]
    ELSE IF ~mmOk THEN [thrown |-> TRUE, api |-> "none", cleanup |-> "none"]
    ELSE IF hasModern THEN [thrown |-> FALSE, api |-> "modern", cleanup |-> "modern"]
    ELSE IF hasLegacy THEN [thrown |-> FALSE, api |-> "legacy", cleanup |-> "none"]
    ELSE [thrown |-> FALSE, api |-> "none", cleanup |-> "none"]

\* the listener effect that tests for addListener before addEventListener
subscribe_legacyFirst(t) ==
    IF t # "system" THEN [thrown |-> FALSE, api |-> "none", cleanup |-> "none"]
    ELSE IF ~mmOk THEN [thrown |-> TRUE, api |-> "none", cleanup |-> "none"]
    ELSE IF hasLegacy THEN [thrown |-> FALSE, api |-> "legacy", cleanup |-> "legacy"]
    ELSE IF hasModern THEN [thrown |-> FALSE, api |-> "modern", cleanup |-> "modern"]
    ELSE [thrown |-> FALSE, api |-> "none", cleanup |-> "none"]

\* the listener effect that calls addListener without testing for it and
\* without a try block
subscribe_unguardedLegacy(t) ==
    IF t # "system" THEN [thrown |-> FALSE, api |-> "none", cleanup |-> "none"]
    ELSE IF ~mmOk THEN [thrown |-> TRUE, api |-> "none", cleanup |-> "none"]
    ELSE IF hasModern THEN [thrown |-> FALSE, api |-> "modern", cleanup |-> "modern"]
    ELSE IF hasLegacy THEN [thrown |-> FALSE, api |-> "legacy", cleanup |-> "legacy"]
    ELSE [thrown |-> TRUE, api |-> "none", cleanup |-> "none"]

\* Body of the listener effect for a render whose theme is t.
\* api is the registration it makes, cleanup the removal its returned
\* function makes.
subscribe(t) ==
    IF t # "system" THEN [thrown |-> FALSE, api |-> "none", cleanup |-> "none"]
    ELSE IF ~mmOk THEN [thrown |-> TRUE, api |-> "none", cleanup |-> "none"]
    ELSE IF hasModern THEN [thrown |-> FALSE, api |-> "modern", cleanup |-> "modern"]
    ELSE IF hasLegacy THEN [thrown |-> FALSE, api |-> "legacy", cleanup |-> "legacy"]
    ELSE [thrown |-> FALSE, api |-> "none", cleanup |-> "none"]

NoListeners == [a \in {"modern", "legacy"} |-> 0]
NumListeners == listeners["modern"] + listeners["legacy"]

\* a cleanup whose removal matches no attached handler
runCleanup_noop(ls, c) ==
    ls

\* the cleanup c removes its handler through the counterpart API
runCleanup(ls, c) ==
    IF c = "none" THEN ls
    ELSE [ls EXCEPT ![c] = IF ls[c] > 0 THEN ls[c] - 1 ELSE 0]

register(ls, a) ==
    IF a = "none" THEN ls ELSE [ls EXCEPT ![a] = ls[a] + 1]

\* handleSystemThemeChange for an event reporting scheme v
handleSystemThemeChange(v) ==
    [resolved |-> v, classes |-> applyTheme(classList, v)]

\* What the two mount effects leave behind when the storage key holds raw.
InitResult(raw) ==
    LET stored == getStoredTheme(raw)
        storedTheme == storedThemeOrDefault(raw)
        initial == resolveTheme(storedTheme)
        sub == subscribe(defaultTheme)
    IN  [theme |-> storedTheme,
         resolved |-> initial.val,
         classes |-> applyTheme(classList, initial.val),
         log |-> stored.warn \o initial.warn,
         phase |-> IF sub.thrown THEN "crashed" ELSE "active",
         api |-> sub.api,
         cleanup |-> sub.cleanup]

----------------------------------------------------------------------------
(* Initial state: a page load with the first render done *)

\* state hooks that start from the rendered theme of a literal preference
initialState_resolved(d) ==
    [theme |-> d, resolvedTheme |-> IF d = "dark" THEN "dark" ELSE "light"]

\* the state hooks of the first render
initialState(d) == [theme |-> d, resolvedTheme |-> "light"]

\* the browser a page can be loaded in: without matchMedia there is no
\* MediaQueryList and so neither registration API
Environments ==
    {e \in [readOk : BOOLEAN, writeOk : BOOLEAN, mmOk : BOOLEAN,
            hasModern : BOOLEAN, hasLegacy : BOOLEAN] :
        ~e.mmOk => (~e.hasModern /\ ~e.hasLegacy)}

Init ==
    /\ phase = "uninit"
    /\ defaultTheme \in Preferences
    /\ theme = initialState(defaultTheme).theme
    /\ resolvedTheme = initialState(defaultTheme).resolvedTheme
    /\ classList = {FontClass}
    /\ storage \in StorageValues
    /\ os \in Resolved
    /\ \E e \in Environments :
        /\ readOk = e.readOk /\ writeOk = e.writeOk /\ mmOk = e.mmOk
        /\ hasModern = e.hasModern /\ hasLegacy = e.hasLegacy
    /\ listeners = NoListeners
    /\ cleanup = "none"
    /\ effTheme = defaultTheme
    /\ log = <<>>
    /\ lastOp = Op("mount", NoArg)
    /\ rt = NoRoundTrip
    /\ osAtInit = os
    /\ lastSet = NoSet
    /\ lastSaved = NULL
    /\ consumed = NoRead
    /\ clicks = <<>>

----------------------------------------------------------------------------
(* Steps *)

\* initialization that stores the preference it adopted
Initialize_persists ==
    /\ phase = "uninit"
    /\ LET r == InitResult(storage) IN
        /\ theme' = r.theme
        /\ resolvedTheme' = r.resolved
        /\ classList' = r.classes
        /\ log' = r.log
        /\ phase' = r.phase
        /\ listeners' = register(listeners, r.api)
        /\ cleanup' = r.cleanup
    /\ effTheme' = defaultTheme
    /\ lastOp' = Op("initialize", NoArg)
    /\ rt' = IF rt[1] = "ended" THEN <<"reloaded", rt[2]>> ELSE NoRoundTrip
    /\ osAtInit' = os
    /\ consumed' = NoRead
    /\ clicks' = <<>>
    /\ storage' = IF writeOk THEN InitResult(storage).theme ELSE storage
    /\ UNCHANGED <<defaultTheme, os, env, lastSet, lastSaved>>

\* The effects of the first commit: the initialization effect, then the
\* listener effect of the first render (whose theme is defaultTheme).
Initialize ==
    /\ phase = "uninit"
    /\ LET r == InitResult(storage) IN
        /\ theme' = r.theme
        /\ resolvedTheme' = r.resolved
        /\ classList' = r.classes
        /\ log' = r.log
        /\ phase' = r.phase
        /\ listeners' = register(listeners, r.api)
        /\ cleanup' = r.cleanup
    /\ effTheme' = defaultTheme
    /\ lastOp' = Op("initialize", NoArg)
    /\ rt' = IF rt[1] = "ended" THEN <<"reloaded", rt[2]>> ELSE NoRoundTrip
    /\ osAtInit' = os
    /\ consumed' = NoRead
    /\ clicks' = <<>>
    /\ UNCHANGED <<defaultTheme, storage, os, env, lastSet, lastSaved>>

\* setTheme whose storage write is not guarded: the exception leaves the
\* handler after setThemeState
setTheme_unguardedWrite(newTheme) ==
    /\ phase \in {"uninit", "active"}
    /\ theme' = newTheme
    /\ IF writeOk
       THEN /\ storage' = newTheme
            /\ resolvedTheme' = resolveTheme(newTheme).val
            /\ classList' = applyTheme(classList, resolveTheme(newTheme).val)
            /\ log' = resolveTheme(newTheme).warn
       ELSE /\ UNCHANGED <<storage, resolvedTheme, classList>>
            /\ log' = <<>>
    /\ lastOp' = Op("setTheme", newTheme)
    /\ rt' = IF writeOk /\ phase = "active" THEN <<"set", newTheme>> ELSE NoRoundTrip
    /\ lastSet' = <<newTheme, IF phase = "uninit" THEN "pre" ELSE "post">>
    /\ lastSaved' = IF writeOk THEN newTheme ELSE lastSaved
    /\ consumed' = NoRead
    /\ clicks' = <<>>
    /\ UNCHANGED <<phase, defaultTheme, os, env, listeners, cleanup, effTheme, osAtInit>>

\* setTheme that resolves the preference of the current render instead of
\* its argument
setTheme_staleResolve(newTheme) ==
    /\ phase \in {"uninit", "active"}
    /\ LET saved == saveTheme(newTheme)
           newResolvedTheme == resolveTheme(theme)
       IN /\ theme' = newTheme
          /\ storage' = saved.val
          /\ resolvedTheme' = newResolvedTheme.val
          /\ classList' = applyTheme(classList, newResolvedTheme.val)
          /\ log' = saved.warn \o newResolvedTheme.warn
    /\ lastOp' = Op("setTheme", newTheme)
    /\ rt' = IF writeOk /\ phase = "active" THEN <<"set", newTheme>> ELSE NoRoundTrip
    /\ lastSet' = <<newTheme, IF phase = "uninit" THEN "pre" ELSE "post">>
    /\ lastSaved' = IF writeOk THEN newTheme ELSE lastSaved
    /\ consumed' = NoRead
    /\ clicks' = <<>>
    /\ UNCHANGED <<phase, defaultTheme, os, env, listeners, cleanup, effTheme, osAtInit>>

\* the clicks on a toggle that no other step separates, the latest MaxClicks
MaxClicks == 3
click(caller) ==
    LET run == IF clicks # <<>> /\ clicks[1].by = caller THEN clicks ELSE <<>>
        all == Append(run, [by |-> caller, theme |-> theme, resolved |-> resolvedTheme])
    IN IF Len(all) > MaxClicks THEN Tail(all) ELSE all

\* setTheme as one of its callers invokes it
setThemeCall(caller, newTheme) ==
    /\ phase \in {"uninit", "active"}
    /\ LET saved == saveTheme(newTheme)
           newResolvedTheme == resolveTheme(newTheme)
       IN /\ theme' = newTheme
          /\ storage' = saved.val
          /\ resolvedTheme' = newResolvedTheme.val
          /\ classList' = applyTheme(classList, newResolvedTheme.val)
          /\ log' = saved.warn \o newResolvedTheme.warn
    /\ lastOp' = Op(caller, newTheme)
    /\ rt' = IF writeOk /\ phase = "active" THEN <<"set", newTheme>> ELSE NoRoundTrip
    /\ lastSet' = <<newTheme, IF phase = "uninit" THEN "pre" ELSE "post">>
    /\ lastSaved' = IF writeOk THEN newTheme ELSE lastSaved
    /\ consumed' = NoRead
    /\ clicks' = IF caller \in {"toggle", "icon"} THEN click(caller) ELSE <<>>
    /\ UNCHANGED <<phase, defaultTheme, os, env, listeners, cleanup, effTheme, osAtInit>>

setTheme(newTheme) == setThemeCall("setTheme", newTheme)

\* a ThemeToggle that leaves dark for light
nextTheme_skipsSystem(t) ==
    CASE t = "light" -> "dark"
      [] t = "dark" -> "light"
      [] t = "system" -> "light"
      [] OTHER -> "light"

\* ThemeToggle: light -> dark -> system -> light
nextTheme(t) ==
    CASE t = "light" -> "dark"
      [] t = "dark" -> "system"
      [] t = "system" -> "light"
      [] OTHER -> "light"

\* A click on ThemeToggle
ThemeToggle_handleThemeToggle == setThemeCall("toggle", nextTheme(theme))

\* ThemeToggleIcon: the opposite of the rendered theme
oppositeTheme(r) == IF r = "light" THEN "dark" ELSE "light"

\* a ThemeToggleIcon that goes by the preference instead of the rendered theme
ThemeToggleIcon_fromPreference == setThemeCall("icon", oppositeTheme(theme))

\* A click on ThemeToggleIcon
ThemeToggleIcon_handleThemeToggle == setThemeCall("icon", oppositeTheme(resolvedTheme))

\* A render with a changed theme commits: the previous cleanup runs, then
\* the listener effect runs with the new theme.
SystemChangeEffect ==
    /\ phase = "active"
    /\ effTheme # theme
    /\ LET sub == subscribe(theme) IN
        /\ listeners' = register(runCleanup(listeners, cleanup), sub.api)
        /\ cleanup' = sub.cleanup
        /\ phase' = IF sub.thrown THEN "crashed" ELSE "active"
    /\ effTheme' = theme
    /\ log' = <<>>
    /\ lastOp' = Op("effect", NoArg)
    /\ consumed' = NoRead
    /\ clicks' = <<>>
    /\ UNCHANGED <<defaultTheme, theme, resolvedTheme, classList, storage, os, env, rt, osAtInit,
                   lastSet, lastSaved>>

\* The operating system switches its colour scheme; the media query fires
\* `change` at the handlers attached to it.
SystemThemeChange(v) ==
    /\ v # os
    /\ os' = v
    /\ IF NumListeners > 0
       THEN /\ resolvedTheme' = handleSystemThemeChange(v).resolved
            /\ classList' = handleSystemThemeChange(v).classes
       ELSE UNCHANGED <<resolvedTheme, classList>>
    /\ log' = <<>>
    /\ lastOp' = Op("osChange", v)
    /\ consumed' = NoRead
    /\ clicks' = <<>>
    /\ UNCHANGED <<phase, defaultTheme, theme, storage, env, listeners, cleanup, effTheme, rt, osAtInit,
                   lastSet, lastSaved>>

\* The provider unmounts: the cleanup of the listener effect runs.
Unmount ==
    /\ phase \in {"uninit", "active"}
    /\ phase' = "ended"
    /\ listeners' = runCleanup(listeners, cleanup)
    /\ cleanup' = "none"
    /\ log' = <<>>
    /\ lastOp' = Op("unmount", NoArg)
    /\ rt' = IF rt[1] = "set" /\ phase = "active" THEN <<"ended", rt[2]>> ELSE NoRoundTrip
    /\ consumed' = NoRead
    /\ clicks' = <<>>
    /\ UNCHANGED <<defaultTheme, theme, resolvedTheme, classList, storage, os, env, effTheme, osAtInit,
                   lastSet, lastSaved>>

\* The page is loaded again: a new document, a new provider, the same storage.
Mount(d) ==
    /\ phase \in {"ended", "crashed"}
    /\ phase' = "uninit"
    /\ defaultTheme' = d
    /\ theme' = initialState(d).theme
    /\ resolvedTheme' = initialState(d).resolvedTheme
    /\ classList' = {FontClass}
    /\ \E e \in Environments :
        /\ readOk' = e.readOk /\ writeOk' = e.writeOk /\ mmOk' = e.mmOk
        /\ hasModern' = e.hasModern /\ hasLegacy' = e.hasLegacy
    /\ listeners' = NoListeners
    /\ cleanup' = "none"
    /\ effTheme' = d
    /\ log' = <<>>
    /\ lastOp' = Op("mount", NoArg)
    /\ rt' = IF rt[1] = "ended" /\ phase = "ended" THEN rt ELSE NoRoundTrip
    /\ osAtInit' = os
    /\ lastSet' = NoSet
    /\ consumed' = NoRead
    /\ clicks' = <<>>
    /\ UNCHANGED <<storage, os, lastSaved>>

\* The parent renders the provider with another defaultTheme: the
\* initialization effect runs again (its dependencies changed); the listener
\* effect does not (the theme of this render is the one of the last).
PropsChange(d) ==
    /\ phase = "active"
    /\ d # defaultTheme
    /\ defaultTheme' = d
    /\ LET stored == getStoredTheme(storage)
           initialTheme == IF stored.val # NULL THEN stored.val ELSE d
           initialResolved == resolveTheme(initialTheme)
       IN /\ theme' = initialTheme
          /\ resolvedTheme' = initialResolved.val
          /\ classList' = applyTheme(classList, initialResolved.val)
          /\ log' = stored.warn \o initialResolved.warn
    /\ lastOp' = Op("reinitialize", d)
    /\ rt' = NoRoundTrip
    /\ consumed' = NoRead
    /\ clicks' = <<>>
    /\ UNCHANGED <<phase, storage, os, env, listeners, cleanup, effTheme, osAtInit,
                   lastSet, lastSaved>>

\* the value the provider hands to its descendants
contextValue == [theme |-> theme, resolvedTheme |-> resolvedTheme, setTheme |-> "setTheme"]

\* useTheme that hands out whatever the context holds
useTheme_unchecked(context) ==
    [thrown |-> FALSE, error |-> "", value |-> context]

useTheme(context) ==
    IF context = UNDEFINED
    THEN [thrown |-> TRUE, error |-> ErrOutsideProvider, value |-> UNDEFINED]
    ELSE [thrown |-> FALSE, error |-> "", value |-> context]

\* A component that calls useTheme renders, below the provider or outside
\* of any provider.
RenderConsumer(inside) ==
    /\ inside => phase \in {"uninit", "active"}
    /\ consumed' = useTheme(IF inside THEN contextValue ELSE UNDEFINED)
    /\ log' = <<>>
    /\ lastOp' = Op("useTheme", IF inside THEN "inside" ELSE "outside")
    /\ clicks' = <<>>
    /\ UNCHANGED <<phase, defaultTheme, theme, resolvedTheme, classList, storage, os, env,
                   listeners, cleanup, effTheme, rt, osAtInit, lastSet, lastSaved>>

Next ==
    \/ Initialize
    \/ \E p \in Preferences : setTheme(p)
    \/ ThemeToggle_handleThemeToggle
    \/ ThemeToggleIcon_handleThemeToggle
    \/ SystemChangeEffect
    \/ \E v \in Resolved : SystemThemeChange(v)
    \/ Unmount
    \/ \E d \in Preferences : Mount(d)

Spec == Init /\ [][Next]_vars

\* the provider under a parent that changes its props
NextProps ==
    \/ Next
    \/ \E d \in Preferences : PropsChange(d)

SpecProps == Init /\ [][NextProps]_vars

\* the provider together with the components that read its context
NextConsumer ==
    \/ Next
    \/ \E inside \in BOOLEAN : RenderConsumer(inside)

SpecConsumer == Init /\ [][NextConsumer]_vars

----------------------------------------------------------------------------
(* Types *)

TypeOK ==
    /\ phase \in {"uninit", "active", "crashed", "ended"}
    /\ defaultTheme \in Preferences
    /\ theme \in Preferences
    /\ resolvedTheme \in Resolved
    /\ classList \subseteq {FontClass, "light", "dark"}
    /\ storage \in StorageValues
    /\ os \in Resolved
    /\ cleanup \in {"none", "modern", "legacy"}
    /\ effTheme \in Preferences
    /\ lastSet \in {NoSet} \cup (Preferences \X {"pre", "post"})
    /\ lastSaved \in {NULL} \cup Preferences
    /\ consumed.thrown \in BOOLEAN
    /\ Len(clicks) <= MaxClicks

\* the theme markers the document root carries
Marker == classList \cap {"light", "dark"}

----------------------------------------------------------------------------
(* Claims *)

\* C1: in every state of an initialized session whose OS signal can be
\* queried and subscribed to, resolvedTheme is light or dark, equals theme
\* when theme is light or dark, and equals the OS colour scheme when theme
\* is system.
C1_ResolvedFollowsPreference ==
    (phase = "active" /\ mmOk /\ (hasModern \/ hasLegacy)) =>
        /\ resolvedTheme \in Resolved
        /\ (theme \in Resolved => resolvedTheme = theme)
        /\ (theme = "system" => resolvedTheme = os)

\* C2: the document root never carries both theme markers, and once
\* initialization has applied a theme it carries exactly the marker of
\* resolvedTheme, whichever of initialize, setTheme and the OS-change
\* handler wrote it last.
C2_ExactlyOneMarker ==
    /\ Cardinality(Marker) <= 1
    /\ (phase = "active" => Marker = {resolvedTheme})

C2_Witness ==
    /\ phase = "active"
    /\ lastOp = Op("osChange", "dark")
    /\ NumListeners > 0
    /\ theme = "system"
    /\ Marker = {"dark"}

\* C3: no error state is reachable: whatever the storage read, the OS
\* query and defaultTheme do, the session is never torn down by an error
\* and an initialized session has a valid theme and a resolvedTheme of
\* light or dark.
C3_NoErrorState ==
    /\ phase # "crashed"
    /\ (phase = "active" => theme \in Preferences /\ resolvedTheme \in Resolved)

\* C4: after setTheme(p) with a working storage, the end of the session
\* and a fresh initialize that can read the storage (any defaultTheme),
\* theme is p.
C4_PersistenceRoundTrip ==
    (rt[1] = "reloaded" /\ readOk) => theme = rt[2]

C4_Witness ==
    /\ rt = <<"reloaded", "system">>
    /\ readOk
    /\ lastOp.op = "initialize"
    /\ defaultTheme = "light"
    /\ theme = "system"

\* C5: when the storage holds light or dark, initialize yields that value
\* as theme, as resolvedTheme and as the marker, for every OS colour scheme
\* and every defaultTheme.
C5_UserPriorityOverSystem ==
    (lastOp.op = "initialize" /\ readOk /\ mmOk /\ storage \in Resolved) =>
        /\ theme = storage
        /\ resolvedTheme = storage
        /\ Marker = {storage}

C5_Witness ==
    /\ lastOp.op = "initialize"
    /\ readOk /\ mmOk
    /\ storage = "light"
    /\ os = "dark"
    /\ defaultTheme = "system"
    /\ resolvedTheme = "light"

\* C6: when nothing is persisted and defaultTheme is system, initialize
\* yields theme system and resolvedTheme equal to the OS colour scheme.
C6_SystemDeference ==
    (lastOp.op = "initialize" /\ readOk /\ mmOk /\ storage = NULL
        /\ defaultTheme = "system") =>
        /\ theme = "system"
        /\ resolvedTheme = os

C6_Witness ==
    /\ lastOp.op = "initialize"
    /\ readOk /\ mmOk
    /\ storage = NULL
    /\ defaultTheme = "system"
    /\ os = "dark"
    /\ resolvedTheme = "dark"

\* C7: initialize adopts a readable persisted value that is light, dark or
\* system and adopts defaultTheme otherwise; any other persisted value
\* leaves exactly the state an absent value leaves, and no read warning is
\* logged for it.
C7_InvalidStoredIsAbsent ==
    (lastOp.op = "initialize" /\ readOk) =>
        /\ theme = (IF storage \in Preferences THEN storage ELSE defaultTheme)
        /\ (storage \notin Preferences =>
              /\ <<theme, resolvedTheme, classList, log, phase>> =
                    <<InitResult(NULL).theme, InitResult(NULL).resolved,
                      InitResult(NULL).classes, InitResult(NULL).log,
                      InitResult(NULL).phase>>
              /\ \A i \in 1..Len(log) : log[i] # WarnRead)

C7_Witness ==
    /\ lastOp.op = "initialize"
    /\ readOk
    /\ storage = "Dark"
    /\ defaultTheme = "light"
    /\ theme = "light"
    /\ phase = "active"

\* C8 as stated: when nothing valid can be read from the storage (absent,
\* invalid or unreadable), theme after initialization is system.
C8_FallsBackToSystem ==
    (lastOp.op = "initialize" /\ (~readOk \/ storage \notin Preferences)) =>
        theme = "system"

\* C8 amended: when nothing valid can be read from the storage, theme after
\* initialization is defaultTheme; it is system when defaultTheme is left
\* at its default.
C8_FallsBackToDefault ==
    (lastOp.op = "initialize" /\ (~readOk \/ storage \notin Preferences)) =>
        /\ theme = defaultTheme
        /\ (defaultTheme = DefaultThemeProp => theme = "system")

C8_Witness ==
    /\ lastOp.op = "initialize"
    /\ storage = ""
    /\ readOk
    /\ defaultTheme = "dark"
    /\ theme = "dark"

\* C9: when the storage read throws, initialize goes on as with no
\* persisted value: theme is defaultTheme, resolvedTheme and the marker are
\* resolved from it, and the read warning is logged.
C9_ReadFailureFallsBack ==
    (lastOp.op = "initialize" /\ ~readOk) =>
        /\ theme = defaultTheme
        /\ resolvedTheme = (IF defaultTheme \in Resolved THEN defaultTheme
                            ELSE IF mmOk THEN os ELSE "light")
        /\ Marker = {resolvedTheme}
        /\ Len(log) >= 1 /\ log[1] = WarnRead

C9_Witness ==
    /\ lastOp.op = "initialize"
    /\ ~readOk
    /\ storage = "dark"
    /\ defaultTheme = "light"
    /\ theme = "light"
    /\ resolvedTheme = "light"
    /\ log = <<WarnRead>>

\* C10: when the storage write throws in setTheme(p), theme still becomes
\* p, resolvedTheme and the marker are recomputed and applied, the save
\* warning is logged, the storage and the session are left as they were,
\* and in an initialized session theme then changes only by another
\* setTheme.
C10_AfterFailedWrite ==
    (lastOp.op = "setTheme" /\ ~writeOk) =>
        /\ theme = lastOp.arg
        /\ resolvedTheme = (IF theme \in Resolved THEN theme
                            ELSE IF mmOk THEN os ELSE "light")
        /\ Marker = {resolvedTheme}
        /\ Len(log) >= 1 /\ log[1] = WarnSave
        /\ phase \in {"uninit", "active"}

C10_FailedWriteStep ==
    (lastOp'.op = "setTheme" /\ ~writeOk) =>
        /\ storage' = storage
        /\ phase' = phase

C10_MemoryAuthoritative ==
    (~writeOk /\ phase = "active" /\ lastOp'.op \notin SetterOps \cup {"mount"}) =>
        theme' = theme

Count(w) == Cardinality({i \in 1..Len(log) : log[i] = w})

\* C11: when the storage throws on reads and on writes (the OS signal
\* being queryable), initialize and every setTheme still end with a valid
\* theme, a resolvedTheme of light or dark and its marker, the session is
\* not in error, and the step logged exactly one warning: the read warning
\* for initialize, the save warning for setTheme.
C11_OneWarningPerFailingCall ==
    (~readOk /\ ~writeOk /\ mmOk /\ lastOp.op \in {"initialize", "setTheme"}) =>
        /\ theme \in Preferences
        /\ resolvedTheme \in Resolved
        /\ Marker = {resolvedTheme}
        /\ phase \in {"uninit", "active"}
        /\ Len(log) = 1
        /\ Count(IF lastOp.op = "initialize" THEN WarnRead ELSE WarnSave) = 1

C11_Witness ==
    /\ ~readOk /\ ~writeOk /\ mmOk
    /\ lastOp = Op("setTheme", "system")
    /\ phase = "active"
    /\ storage = "light"
    /\ os = "dark"
    /\ resolvedTheme = "dark"
    /\ log = <<WarnSave>>

\* C12: when the OS query throws while system is being resolved (by
\* initialize or by setTheme(system)), resolvedTheme is light, theme stays
\* system, the detection warning is logged, and the failure never puts the
\* session in error, neither in that step nor when the listener effect of
\* that preference runs.
C12_QueryFailureResolvesLight ==
    (~mmOk /\ theme = "system" /\ lastOp.op \in {"initialize", "setTheme", "effect"}) =>
        /\ resolvedTheme = "light"
        /\ Marker = {"light"}
        /\ phase # "crashed"
        /\ (lastOp.op # "effect" => Count(WarnSystem) = 1)

\* C13: setTheme(x) with x light or dark, from any state and for any OS
\* colour scheme, leaves theme x, resolvedTheme x and exactly the marker x.
C13_SetLiteralTheme ==
    (lastOp.op = "setTheme" /\ lastOp.arg \in Resolved) =>
        /\ theme = lastOp.arg
        /\ resolvedTheme = lastOp.arg
        /\ Marker = {lastOp.arg}

C13_Witness ==
    /\ lastOp = Op("setTheme", "light")
    /\ phase = "active"
    /\ effTheme = "system"
    /\ NumListeners = 1
    /\ os = "dark"
    /\ resolvedTheme = "light"
    /\ Marker = {"light"}

\* C14: in every state of a live session setTheme(p) is enabled for each
\* of the three preferences, and setTheme(system) leaves theme system and
\* resolvedTheme equal to the colour scheme the OS reports at the call,
\* also when that differs from the one it reported at initialization.
C14_NoTransitionRejected ==
    /\ (phase \in {"uninit", "active"} => \A p \in Preferences : ENABLED setTheme(p))
    /\ ((lastOp = Op("setTheme", "system") /\ mmOk) =>
            /\ theme = "system"
            /\ resolvedTheme = os
            /\ Marker = {os})

C14_Witness ==
    /\ lastOp = Op("setTheme", "system")
    /\ mmOk
    /\ phase = "active"
    /\ effTheme = "light"
    /\ os # osAtInit
    /\ resolvedTheme = os

\* the listener effect has run for the current theme
Settled == phase = "active" /\ effTheme = theme
\* the media query can be subscribed to
CanSubscribe == mmOk /\ (hasModern \/ hasLegacy)

\* C15: while theme is system (the media query being subscribable), every
\* OS change to a scheme Y sets resolvedTheme and the marker to Y and
\* leaves theme and the storage as they were.
C15_Step ==
    (phase = "active" /\ theme = "system" /\ CanSubscribe /\ lastOp'.op = "osChange") =>
        /\ resolvedTheme' = os'
        /\ Marker' = {os'}
        /\ theme' = theme
        /\ storage' = storage

C15_SystemFollowsOS == [][C15_Step]_vars

\* C16: in every state of an initialized session whose theme is light or
\* dark, an OS change leaves resolvedTheme and the marker as they were.
C16_Step ==
    (phase = "active" /\ theme \in Resolved /\ lastOp'.op = "osChange") =>
        /\ resolvedTheme' = resolvedTheme
        /\ classList' = classList

C16_LiteralIgnoresOS == [][C16_Step]_vars

\* C17 as stated: never more than one listener is registered, and in a
\* settled state one is registered exactly when theme is system.
C17_ListenerIffSystem ==
    /\ NumListeners <= 1
    /\ (Settled => (NumListeners = 1 <=> theme = "system"))

\* C17 amended: never more than one listener is registered, a registered
\* listener always has its deregistration pending, and in a settled state
\* one is registered exactly when theme is system and the media query
\* offers a registration API.
C17_ListenerIffSystemAndApi ==
    /\ NumListeners <= 1
    /\ (NumListeners = 1 <=> cleanup # "none")
    /\ (Settled => (NumListeners = 1 <=> (theme = "system" /\ (hasModern \/ hasLegacy))))

C17_Witness ==
    /\ Settled
    /\ lastOp = Op("setTheme", "system")
    /\ defaultTheme = "light"
    /\ storage = "system"
    /\ NumListeners = 1

\* C18: once the session has ended no listener of the provider remains
\* registered, whatever setTheme calls and OS changes came before.
C18_NoListenerAfterEnd ==
    phase = "ended" => (NumListeners = 0 /\ cleanup = "none")

C18_Witness ==
    /\ phase = "ended"
    /\ lastOp.op = "unmount"
    /\ theme = "system"
    /\ effTheme = "system"
    /\ mmOk /\ hasLegacy /\ ~hasModern
    /\ NumListeners = 0

\* C19: a listener is registered through addEventListener whenever that
\* exists and through addListener only when it does not, never through
\* both, and the pending deregistration is the counterpart of the API the
\* listener was registered through.
C19_ModernFirst ==
    /\ (listeners["modern"] > 0 => hasModern)
    /\ (listeners["legacy"] > 0 => (hasLegacy /\ ~hasModern))
    /\ ~(listeners["modern"] > 0 /\ listeners["legacy"] > 0)
    /\ (cleanup # "none" => listeners[cleanup] = 1)
    /\ (cleanup = "none" => listeners = NoListeners)

C19_Witness ==
    /\ hasModern /\ hasLegacy
    /\ theme = "system"
    /\ lastOp.op = "effect"
    /\ listeners["modern"] = 1
    /\ listeners["legacy"] = 0
    /\ cleanup = "modern"

\* C20: a teardown removes exactly the listener its subscription
\* registered, a repeated teardown removes nothing more, and where the
\* media query offers neither registration API subscribing and
\* unsubscribing register nothing, do not throw and leave theme,
\* resolvedTheme and the class list as they were.
C20_TeardownIdempotent ==
    runCleanup(runCleanup(listeners, cleanup), cleanup) = runCleanup(listeners, cleanup)

C20_Step ==
    /\ (lastOp'.op = "unmount" =>
            /\ listeners' = runCleanup(listeners, cleanup)
            /\ NumListeners' = 0
            /\ NumListeners = (IF cleanup = "none" THEN 0 ELSE 1))
    /\ ((lastOp'.op \in {"effect", "unmount"} /\ mmOk /\ ~hasModern /\ ~hasLegacy) =>
            /\ listeners = NoListeners
            /\ listeners' = NoListeners
            /\ phase' # "crashed"
            /\ <<theme', resolvedTheme', classList'>> = <<theme, resolvedTheme, classList>>)

----------------------------------------------------------------------------
(* C21 *)

\* C21: the last setTheme wins. Whatever setTheme calls and changes of the
\* operating system an initialized session has seen, the preference in memory
\* is the argument of its latest setTheme, and the stored value is the
\* argument of the latest setTheme whose write succeeded; where the storage
\* works, each setTheme leaves the stored value equal to the one in memory.
C21_LastWriteWins ==
    /\ lastSet[2] = "post" => theme = lastSet[1]
    /\ lastSaved # NULL => storage = lastSaved
    /\ (lastOp.op \in SetterOps /\ writeOk) => (storage = theme /\ storage = lastOp.arg)

\* an earlier session stored dark; this one cannot write, has set light, and
\* the operating system has changed since
C21_Witness ==
    /\ lastOp = Op("osChange", "dark")
    /\ ~writeOk
    /\ lastSet = <<"light", "post">>
    /\ lastSaved = "dark"
    /\ theme = "light"
    /\ storage = "dark"

----------------------------------------------------------------------------
(* C22 *)

\* C22: once a session is initialized its preference changes through
\* setTheme only: no other step of the live session, a change of the
\* operating system and a second run of the initialization included, changes
\* theme.
C22_Step ==
    (phase = "active" /\ lastOp'.op \notin SetterOps) => theme' = theme

C22_OnlySetThemeMutates == [][C22_Step]_vars

----------------------------------------------------------------------------
(* C23 *)

\* C23: a click on ThemeToggle calls setTheme with the successor of the
\* current preference in the cycle light -> dark -> system -> light; three
\* clicks in a row are back at the preference the first started from, and
\* the start and the two preferences after it are all three preferences.
C23_Step ==
    lastOp'.op = "toggle" =>
        /\ theme = "light" => theme' = "dark"
        /\ theme = "dark" => theme' = "system"
        /\ theme = "system" => theme' = "light"
        /\ lastOp'.arg = theme'

C23_Runs ==
    (clicks # <<>> /\ clicks[1].by = "toggle") =>
        /\ Len(clicks) = 3 => theme = clicks[1].theme
        /\ Len(clicks) >= 2 =>
              {clicks[Len(clicks) - 1].theme, clicks[Len(clicks)].theme, theme} = Preferences

----------------------------------------------------------------------------
(* C24 *)

\* C24: whatever the operating system reports, a click on the theme toggle
\* while the theme is light or dark switches the rendered theme to the
\* opposite one.
C24_Step ==
    (/\ lastOp'.op = "toggle"
     /\ phase = "active"
     /\ theme \in Resolved
     /\ resolvedTheme = theme) =>
        /\ resolvedTheme' \in Resolved \ {resolvedTheme}
        /\ Marker' = {resolvedTheme'}

C24_ToggleFlipsRendered == [][C24_Step]_vars

----------------------------------------------------------------------------
(* C25 *)

\* C25: a click on ThemeToggleIcon sets the preference to the opposite of
\* the rendered theme: after it the preference is light or dark and the
\* rendered theme is the preference and not what it was; two clicks in a
\* row are back at the rendered theme the first started from.
C25_Step ==
    lastOp'.op = "icon" =>
        /\ theme' \in Resolved
        /\ lastOp'.arg = theme'
        /\ resolvedTheme' = theme'
        /\ resolvedTheme' # resolvedTheme

C25_Runs ==
    (Len(clicks) >= 2 /\ clicks[1].by = "icon") =>
        resolvedTheme = clicks[Len(clicks) - 1].resolved

----------------------------------------------------------------------------
(* C26 *)

\* C26: the toggle works whatever the initial detection did. An
\* initialization whose query of the operating system failed leaves a live
\* session that takes setTheme, and in a session whose query or whose
\* storage read fails every setTheme(light) and setTheme(dark) after the
\* initialization leaves theme and resolvedTheme at its argument.
C26_ToggleSurvivesDetection ==
    /\ (lastOp.op = "initialize" /\ Count(WarnSystem) > 0) =>
          (phase = "active" /\ \A p \in Resolved : ENABLED setTheme(p))
    /\ (/\ lastOp.op = "setTheme"
        /\ lastSet[2] = "post"
        /\ lastOp.arg \in Resolved
        /\ (~mmOk \/ ~readOk)) =>
          (theme = lastOp.arg /\ resolvedTheme = lastOp.arg)

----------------------------------------------------------------------------
(* C27 *)

\* C27: useTheme outside of a provider throws 'useTheme must be used within
\* a ThemeProvider'; below a provider it returns the provider's current
\* theme, resolvedTheme and setTheme.
C27_UseTheme ==
    lastOp.op = "useTheme" =>
        IF lastOp.arg = "outside"
        THEN /\ consumed.thrown
             /\ consumed.error = "useTheme must be used within a ThemeProvider"
        ELSE /\ ~consumed.thrown
             /\ consumed.value.theme = theme
             /\ consumed.value.resolvedTheme = resolvedTheme
             /\ consumed.value.setTheme = "setTheme"

\* a component outside of the provider renders while the provider is live
C27_Witness ==
    /\ lastOp = Op("useTheme", "outside")
    /\ phase = "active"
    /\ consumed.thrown

----------------------------------------------------------------------------
(* C28 *)

\* C28: the initialization never writes the storage key, only setTheme
\* does: a step changes the stored value only if it is a setTheme whose write
\* succeeds, and then to its argument. A stored value that is not a
\* preference so stays until the first setTheme that can write.
C28_Step ==
    /\ lastOp'.op = "initialize" => storage' = storage
    /\ storage' # storage =>
          (lastOp'.op \in SetterOps /\ writeOk /\ storage' = lastOp'.arg)

C28_OnlySetThemeWrites == [][C28_Step]_vars

\* initialized, with a storage that works, over a value that is not a preference
C28_Witness ==
    /\ lastOp.op = "initialize"
    /\ phase = "active"
    /\ readOk /\ writeOk
    /\ storage = "Dark"

----------------------------------------------------------------------------
(* C29 *)

\* C29: before the initialization has run (and before any setTheme) theme is
\* defaultTheme and resolvedTheme is light, whatever the storage and the
\* operating system hold, and the document root carries no theme marker.
C29_Uninitialized ==
    (phase = "uninit" /\ lastSet = NoSet) =>
        /\ theme = defaultTheme
        /\ resolvedTheme = "light"
        /\ Marker = {}

\* not yet initialized: the default is dark, the storage holds system and
\* the operating system has just gone dark, yet resolvedTheme is light
C29_Witness ==
    /\ phase = "uninit"
    /\ lastOp = Op("osChange", "dark")
    /\ lastSet = NoSet
    /\ defaultTheme = "dark"
    /\ storage = "system"
    /\ readOk /\ mmOk
    /\ resolvedTheme = "light"

----------------------------------------------------------------------------
(* C30 *)

\* C30: with a storage that reads and writes, setTheme(p) and the
\* initialization of one session end at theme = p in either order: the
\* initialization that runs after setTheme(p) reads the p it stored.
C30_EitherOrder ==
    /\ (lastOp.op = "initialize" /\ lastSet[2] = "pre" /\ readOk /\ writeOk) =>
          theme = lastSet[1]
    /\ (lastOp.op \in SetterOps /\ lastSet[2] = "post" /\ readOk /\ writeOk) =>
          theme = lastSet[1]

\* setTheme(dark) came before the initialization of a provider whose default
\* is light
C30_Witness ==
    /\ lastOp.op = "initialize"
    /\ lastSet = <<"dark", "pre">>
    /\ defaultTheme = "light"
    /\ readOk /\ writeOk
    /\ theme = "dark"
====
